---------------------------- MODULE Spec2Model ----------------------------
(***************************************************************************)
(* The Element of src/Element.h: the four-state execution status, the      *)
(* worker loop InternalWorkThread, the sleep gate (canSleep, waitMutex,    *)
(* waitCondition), the execution-state rendezvous (executionWaitMutex,     *)
(* executionWaitCondition) and the pin collections flushed by Terminate.   *)
(*                                                                         *)
(* Threads of the model:                                                   *)
(*   - the worker, running InternalWorkThread (one step per statement);    *)
(*   - the controller, calling Execute and Terminate one after the other   *)
(*     (Terminate blocks it until the join returns);                       *)
(*   - the signaller, calling Wake and SetState one after the other;       *)
(*   - the waiters, each calling WaitForExecutionState.                    *)
(* status, state and canSleep are plain fields, read and written without   *)
(* a common lock: every read and every write of them is a step of its own  *)
(* and a read yields the value last written. A critical section whose      *)
(* inside no other thread can observe is one step; waitMutex is explicit   *)
(* because a stopped worker keeps it, executionWaitMutex is not because    *)
(* it is only ever held for the length of such a step.                     *)
(* Log() writes text only; with logEnabled at its default (false) it       *)
(* touches no state and is left out. pthread_cond_broadcast does not fail  *)
(* on an initialised condition variable, so Wake's throw is left out.      *)
(* Initialize, DoWork and Flush are the base class's. DoWork and each      *)
(* pin's Flush are calls that take time: each has a step for the call and  *)
(* a step for the return.                                                  *)
(* PinCollection (Add, Clear, Count, Item) is exercised on its own, on the *)
(* input collection, by the setup code before the element runs.            *)
(*                                                                         *)
(* class Thread is not part of src/Element.h. Its Start, Cancel and Join   *)
(* follow the worker-of-execution contract: one unit of execution per      *)
(* Thread, Start begins the routine asynchronously, Cancel requests a      *)
(* forced stop that interrupts the worker where it suspends (the sleep-    *)
(* gate wait, pthread_cond_wait), Join blocks until the worker is gone.    *)
(***************************************************************************)
EXTENDS Integers, Sequences, FiniteSets

VARIABLES
    status,          \* Element::status
    state,           \* Element::state (MediaState)
    canSleep,        \* Element::canSleep
    waitMutex,       \* owner of Element::waitMutex: "none" or "worker"
    inputs,          \* Element::inputs  (PinCollection::pins)
    outputs,         \* Element::outputs (PinCollection::pins)
    flushed,         \* the pins whose Flush() the current/last Terminate ran, in order
    item,            \* the outcome of the last PinCollection::Item call on inputs
    added,           \* history: the handles given to Add on inputs since the last Clear
    workPc,          \* the worker's position in InternalWorkThread
    cancelPending,   \* Thread: a Cancel has been requested and not yet acted on
    ctlPc,           \* the controller's position (inside Terminate, or idle)
    lastCall,        \* the controller's last finished call and how it ended
    sigPc,           \* the signaller's position (inside SetState, or idle)
    waitPc,          \* each waiter's position in WaitForExecutionState
    waitTarget,      \* each waiter's argument
    waitSeen,        \* history: status has equalled the argument during the call
    accepted,        \* history: Execute calls accepted since the last accepted Terminate
    wakesSinceRearm, \* history: Wake calls since the worker last re-armed the gate
    coalesced        \* history: Wake calls the worker's last gate pass consumed

vars == <<status, state, canSleep, waitMutex, inputs, outputs, flushed, item, added, workPc,
          cancelPending, ctlPc, lastCall, sigPc, waitPc, waitTarget, waitSeen,
          accepted, wakesSinceRearm, coalesced>>

---------------------------------------------------------------------------
\* Bounds of the model.
NWaiters == 2
MaxWakes == 2
MaxPins == 2
MaxExecutes == 2
MaxCount == 3
MaxHandles == 2

Waiters == 1..NWaiters

\* enum class ExecutionState
ExecutionState == {"WaitingForExecute", "Initializing", "Executing", "Terminating"}

\* MediaState, as far as Element uses it
MediaState == {"Pause", "Play"}

\* The pin handles of a collection of n pins, in insertion order.
PinsOf(kind, n) == [i \in 1..n |-> <<kind, i>>]

\* Not a handle: what a call that returns nothing leaves behind.
NoHandle == <<"none", 0>>

\* A handle read from memory that holds no element of the collection.
Garbage == <<"garbage", 0>>

\* No Item call has been made yet.
NoItem == [index |-> 0, outcome |-> "None", handle |-> NoHandle]

---------------------------------------------------------------------------
\* Element's member initialisers and constructor.
Init ==
    /\ status = "WaitingForExecute"
    /\ state = "Pause"
    /\ canSleep = TRUE
    /\ waitMutex = "none"
    /\ inputs = PinsOf("in", MaxPins)
    /\ outputs = PinsOf("out", MaxPins)
    /\ flushed = << >>
    /\ item = NoItem
    /\ added = inputs
    /\ workPc = "NotStarted"
    /\ cancelPending = FALSE
    /\ ctlPc = "Idle"
    /\ lastCall = "None"
    /\ sigPc = "Idle"
    /\ waitPc = [w \in Waiters |-> "Idle"]
    /\ waitTarget = [w \in Waiters |-> "WaitingForExecute"]
    /\ waitSeen = [w \in Waiters |-> FALSE]
    /\ accepted = 0
    /\ wakesSinceRearm = 0
    /\ coalesced = 0

---------------------------------------------------------------------------
\* SetExecutionState, first statement: status = state.
StoreStatus(s) ==
    /\ status' = s
    /\ waitSeen' = [w \in Waiters |->
                      waitSeen[w] \/ (waitPc[w] \in {"Parked", "Woken"} /\ waitTarget[w] = s)]

\* The waiters pthread_cond_signal may release: one of those parked, if any.
SignalChoices(pc) ==
    IF \E w \in Waiters : pc[w] = "Parked"
    THEN {[pc EXCEPT ![w] = "Woken"] : w \in {x \in Waiters : pc[x] = "Parked"}}
    ELSE {pc}

\* SetExecutionState, the rest: lock, pthread_cond_signal, unlock.
SignalStatus == waitPc' \in SignalChoices(waitPc)

---------------------------------------------------------------------------
\* Groups of variables, for the frame conditions.
pinVars  == <<inputs, outputs, flushed, item, added>>
ctlVars  == <<ctlPc, lastCall, accepted>>
wakeHist == <<wakesSinceRearm, coalesced>>

---------------------------------------------------------------------------
\* The worker: InternalWorkThread, one action per statement.

\* A loop condition that is never true: the worker leaves the loop at once.
LoopCondition_Never == FALSE

\* A loop condition that is always true: the worker never leaves the loop.
LoopCondition_Always == TRUE

\* while (status == ExecutionState::Executing)
LoopCondition == status = "Executing"

\* A worker that calls DoWork in every iteration.
ShouldWork_Always == TRUE

\* if (state == MediaState::Play)
ShouldWork == state = "Play"

\* while (canSleep)
MustSleep == canSleep

\* The gate left as the worker found it.
Rearmed_Forgotten == canSleep

\* canSleep = true;
Rearmed == TRUE

\* SetExecutionState(s), status = state
WorkerStore(at, s, next) ==
    /\ workPc = at
    /\ StoreStatus(s)
    /\ workPc' = next
    /\ UNCHANGED <<state, canSleep, waitMutex, pinVars, cancelPending, ctlVars, sigPc,
                   waitPc, waitTarget, wakeHist>>

\* SetExecutionState(s), lock / signal / unlock
WorkerSignal(at, next) ==
    /\ workPc = at
    /\ SignalStatus
    /\ workPc' = next
    /\ UNCHANGED <<status, state, canSleep, waitMutex, pinVars, cancelPending, ctlVars,
                   sigPc, waitTarget, waitSeen, wakeHist>>

\* A statement that only moves the worker on.
WorkerGoto(at, next) ==
    /\ workPc = at
    /\ workPc' = next
    /\ UNCHANGED <<status, state, canSleep, waitMutex, pinVars, cancelPending, ctlVars,
                   sigPc, waitPc, waitTarget, waitSeen, wakeHist>>

SetInitializing    == WorkerStore("SetInitializing", "Initializing", "SignalInitializing")
SignalInitializing == WorkerSignal("SignalInitializing", "Initialize")
Initialize         == WorkerGoto("Initialize", "SetExecuting")
SetExecuting       == WorkerStore("SetExecuting", "Executing", "SignalExecuting")
SignalExecuting    == WorkerSignal("SignalExecuting", "LoopHead")

LoopHead ==
    WorkerGoto("LoopHead", IF LoopCondition THEN "CheckPlay" ELSE "SetWaiting")

CheckPlay ==
    WorkerGoto("CheckPlay", IF ShouldWork THEN "DoWork" ELSE "Lock")

\* DoWork(): the call, and the return of the call.
DoWork       == WorkerGoto("DoWork", "InDoWork")
DoWorkReturn == WorkerGoto("InDoWork", "Lock")

\* pthread_mutex_lock(&waitMutex)
LockGate ==
    /\ workPc = "Lock"
    /\ waitMutex = "none"
    /\ waitMutex' = "worker"
    /\ workPc' = "CheckSleep"
    /\ UNCHANGED <<status, state, canSleep, pinVars, cancelPending, ctlVars, sigPc,
                   waitPc, waitTarget, waitSeen, wakeHist>>

\* while (canSleep) pthread_cond_wait(...): the test, and the entry into the wait,
\* which releases waitMutex and parks the worker in one step.
CheckSleep ==
    /\ workPc = "CheckSleep"
    /\ IF MustSleep
          THEN workPc' = "Parked" /\ waitMutex' = "none"
          ELSE workPc' = "Rearm" /\ waitMutex' = waitMutex
    /\ UNCHANGED <<status, state, canSleep, pinVars, cancelPending, ctlVars, sigPc,
                   waitPc, waitTarget, waitSeen, wakeHist>>

\* pthread_cond_wait may return with no broadcast (a spurious wakeup).
SpuriousWake ==
    /\ workPc = "Parked"
    /\ workPc' = "Woken"
    /\ UNCHANGED <<status, state, canSleep, waitMutex, pinVars, cancelPending, ctlVars,
                   sigPc, waitPc, waitTarget, waitSeen, wakeHist>>

\* pthread_cond_wait returns: the released worker takes waitMutex again and
\* goes back to the test of canSleep.
LeaveWait ==
    /\ workPc = "Woken"
    /\ waitMutex = "none"
    /\ waitMutex' = "worker"
    /\ workPc' = "CheckSleep"
    /\ UNCHANGED <<status, state, canSleep, pinVars, cancelPending, ctlVars, sigPc,
                   waitPc, waitTarget, waitSeen, wakeHist>>

\* canSleep = true;
Rearm ==
    /\ workPc = "Rearm"
    /\ canSleep' = Rearmed
    /\ workPc' = "Unlock"
    /\ coalesced' = wakesSinceRearm
    /\ wakesSinceRearm' = 0
    /\ UNCHANGED <<status, state, waitMutex, pinVars, cancelPending, ctlVars, sigPc,
                   waitPc, waitTarget, waitSeen>>

\* pthread_mutex_unlock(&waitMutex)
UnlockGate ==
    /\ workPc = "Unlock"
    /\ waitMutex' = "none"
    /\ workPc' = "LoopHead"
    /\ UNCHANGED <<status, state, canSleep, pinVars, cancelPending, ctlVars, sigPc,
                   waitPc, waitTarget, waitSeen, wakeHist>>

SetWaiting    == WorkerStore("SetWaiting", "WaitingForExecute", "SignalWaiting")
SignalWaiting == WorkerSignal("SignalWaiting", "Exited")

\* The forced stop acts on the worker in the sleep-gate wait: as pthread_cond_wait
\* is left the mutex is taken again, and the worker runs no further statement.
Cancelled ==
    /\ workPc \in {"Parked", "Woken"}
    /\ cancelPending
    /\ waitMutex = "none"
    /\ waitMutex' = "worker"
    /\ workPc' = "Cancelled"
    /\ cancelPending' = FALSE
    /\ UNCHANGED <<status, state, canSleep, pinVars, ctlVars, sigPc,
                   waitPc, waitTarget, waitSeen, wakeHist>>

\* The worker's own statements (a spurious wakeup is the library's, not listed).
WorkerStep ==
    \/ SetInitializing \/ SignalInitializing \/ Initialize
    \/ SetExecuting \/ SignalExecuting
    \/ LoopHead \/ CheckPlay \/ DoWork \/ DoWorkReturn
    \/ LockGate \/ CheckSleep \/ LeaveWait \/ Rearm \/ UnlockGate
    \/ SetWaiting \/ SignalWaiting
    \/ Cancelled

---------------------------------------------------------------------------
\* class Thread (the worker-of-execution contract).

\* Start: begin running the routine asynchronously. A Thread owns one unit of
\* execution: a Start while that unit runs leaves it running.
ThreadStart ==
    /\ workPc' = IF workPc = "NotStarted" THEN "SetInitializing" ELSE workPc
    /\ cancelPending' = IF workPc = "NotStarted" THEN FALSE ELSE cancelPending

\* Cancel: request a forced stop of the worker, if it still runs.
ThreadCancel ==
    cancelPending' = (workPc \notin {"NotStarted", "Exited", "Cancelled"})

\* Join: block until the routine has returned or was stopped.
ThreadJoinable == workPc \in {"Exited", "Cancelled"}

---------------------------------------------------------------------------
\* The controller: Execute and Terminate.

\* Execute without its precondition.
ExecuteGuard_Missing == TRUE

\* if (status != ExecutionState::WaitingForExecute) throw ...
ExecuteGuard == status = "WaitingForExecute"

\* Terminate without its precondition.
TerminateGuard_Missing == TRUE

\* if (status != ExecutionState::Executing) throw ...
TerminateGuard == status = "Executing"

Execute ==
    /\ ctlPc = "Idle"
    /\ IF ExecuteGuard
          THEN /\ accepted < MaxExecutes
               /\ ThreadStart
               /\ accepted' = accepted + 1
               /\ lastCall' = "ExecuteOk"
          ELSE /\ lastCall' = "ExecuteInvalidOperation"
               /\ UNCHANGED <<workPc, cancelPending, accepted>>
    /\ UNCHANGED <<status, state, canSleep, waitMutex, pinVars, ctlPc, sigPc,
                   waitPc, waitTarget, waitSeen, wakeHist>>

\* Terminate, up to SetExecutionState's status = state
Terminate ==
    /\ ctlPc = "Idle"
    /\ IF TerminateGuard
          THEN /\ StoreStatus("Terminating")
               /\ ctlPc' = "TermSignal"
               /\ flushed' = << >>
               /\ accepted' = 0
               /\ UNCHANGED lastCall
          ELSE /\ lastCall' = "TerminateInvalidOperation"
               /\ UNCHANGED <<status, waitSeen, ctlPc, flushed, accepted>>
    /\ UNCHANGED <<state, canSleep, waitMutex, inputs, outputs, item, added, workPc,
                   cancelPending, sigPc, waitPc, waitTarget, wakeHist>>

\* Terminate, SetExecutionState's lock / signal / unlock
TermSignal ==
    /\ ctlPc = "TermSignal"
    /\ SignalStatus
    /\ ctlPc' = "TermFlush"
    /\ UNCHANGED <<status, state, canSleep, waitMutex, pinVars, workPc, cancelPending,
                   lastCall, accepted, sigPc, waitTarget, waitSeen, wakeHist>>

\* Pins flushed after the inputs.
FlushOrder_OutputsFirst == outputs \o inputs

\* Element::Flush: inputs.Flush(); outputs.Flush(); each a loop over pins in
\* vector order.
FlushOrder == inputs \o outputs

\* The loops of PinCollection::Flush: the call of the next pin's Flush(), or the
\* return of Element::Flush when no pin is left.
TermFlush ==
    /\ ctlPc = "TermFlush"
    /\ IF Len(flushed) < Len(FlushOrder)
          THEN /\ flushed' = Append(flushed, FlushOrder[Len(flushed) + 1])
               /\ ctlPc' = "PinFlush"
          ELSE /\ flushed' = flushed
               /\ ctlPc' = "TermCancel"
    /\ UNCHANGED <<status, state, canSleep, waitMutex, inputs, outputs, item, added, workPc,
                   cancelPending, lastCall, accepted, sigPc,
                   waitPc, waitTarget, waitSeen, wakeHist>>

\* pin->Flush() returns.
PinFlushReturn ==
    /\ ctlPc = "PinFlush"
    /\ ctlPc' = "TermFlush"
    /\ UNCHANGED <<status, state, canSleep, waitMutex, pinVars, workPc,
                   cancelPending, lastCall, accepted, sigPc,
                   waitPc, waitTarget, waitSeen, wakeHist>>

\* thread.Cancel()
TermCancel ==
    /\ ctlPc = "TermCancel"
    /\ ThreadCancel
    /\ ctlPc' = "TermJoin"
    /\ UNCHANGED <<status, state, canSleep, waitMutex, pinVars, workPc,
                   lastCall, accepted, sigPc,
                   waitPc, waitTarget, waitSeen, wakeHist>>

\* thread.Join(), and the return of Terminate
TermJoin ==
    /\ ctlPc = "TermJoin"
    /\ ThreadJoinable
    /\ workPc' = "NotStarted"
    /\ cancelPending' = FALSE
    /\ ctlPc' = "Idle"
    /\ lastCall' = "TerminateOk"
    /\ UNCHANGED <<status, state, canSleep, waitMutex, pinVars, accepted,
                   sigPc, waitPc, waitTarget, waitSeen, wakeHist>>

\* The steps that carry a started Terminate on.
ControllerStep == TermSignal \/ TermFlush \/ PinFlushReturn \/ TermCancel \/ TermJoin

---------------------------------------------------------------------------
\* The signaller: Wake and SetState.

\* A Wake that clears the gate and releases nobody.
Broadcast_Missing == workPc

\* pthread_cond_broadcast(&waitCondition): every thread parked on the gate is
\* released; only the worker ever parks there.
Broadcast == IF workPc = "Parked" THEN "Woken" ELSE workPc

\* A Wake that leaves the gate as it found it.
Cleared_Not == canSleep

\* canSleep = false;
Cleared == FALSE

\* Wake's critical section: lock, canSleep = false, broadcast, unlock.
WakeBody ==
    /\ waitMutex = "none"
    /\ canSleep' = Cleared
    /\ workPc' = Broadcast
    /\ wakesSinceRearm' = wakesSinceRearm + 1
    /\ UNCHANGED <<status, state, waitMutex, pinVars, cancelPending, ctlVars,
                   waitPc, waitTarget, waitSeen, coalesced>>

Wake ==
    /\ sigPc = "Idle"
    /\ wakesSinceRearm < MaxWakes
    /\ WakeBody
    /\ UNCHANGED sigPc

\* A SetState that calls ChangeState whatever the value.
StateDiffers_Always(value) == TRUE

\* if (state != value)
StateDiffers(value) == state # value

\* SetState(value): if (state != value) ChangeState(state, value), whose first
\* statement is state = newState
SetState(value) ==
    /\ sigPc = "Idle"
    /\ wakesSinceRearm < MaxWakes
    /\ IF StateDiffers(value)
          THEN state' = value /\ sigPc' = "ChangeStateWake"
          ELSE UNCHANGED <<state, sigPc>>
    /\ UNCHANGED <<status, canSleep, waitMutex, pinVars, workPc, cancelPending, ctlVars,
                   waitPc, waitTarget, waitSeen, wakeHist>>

\* ChangeState: Wake(), and the return of SetState
ChangeStateWake ==
    /\ sigPc = "ChangeStateWake"
    /\ WakeBody
    /\ sigPc' = "Idle"

---------------------------------------------------------------------------
\* PinCollection, exercised through the element's input collection
\* (AddInputPin, ClearInputPins, Inputs()->Count(), Inputs()->Item(index)).

\* The handles the setup code adds.
Handles == {<<"in", i>> : i \in 1..MaxHandles}

\* The arguments tried for Item: below, inside and beyond the collection.
Indexes == (0 - 2)..(MaxCount + 2)

\* An Add that puts the handle in front.
Pushed_Front(pins, value) == <<value>> \o pins

\* pins.push_back(value)
Pushed(pins, value) == Append(pins, value)

\* return pins.size()
Count(pins) == Len(pins)

\* if (index < 0 || index > pins.size())
ItemOutOfRange(pins, index) == index < 0 \/ index > Len(pins)

\* What Item(index) can do. Past the check, pins[index] with index below size()
\* is the element at that position (the vector counts from 0, the sequence from
\* 1). With index equal to size() the check is passed too and pins[index] reads
\* past the last element, which is undefined: the call hands back whatever lies
\* there (a handle, or one that refers to nothing) or the program stops. No
\* exception is thrown on that path.
ItemOutcomes(pins, index) ==
    IF ItemOutOfRange(pins, index)
    THEN {[index |-> index, outcome |-> "ArgumentOutOfRange", handle |-> NoHandle]}
    ELSE IF index < Len(pins)
    THEN {[index |-> index, outcome |-> "Returned", handle |-> pins[index + 1]]}
    ELSE {[index |-> index, outcome |-> "Returned", handle |-> h] :
              h \in Handles \cup {Garbage}}
         \cup {[index |-> index, outcome |-> "Crashed", handle |-> NoHandle]}

\* AddInputPin(pin): inputs.Add(pin)
Add(value) ==
    /\ Len(inputs) < MaxCount
    /\ inputs' = Pushed(inputs, value)
    /\ added' = Append(added, value)
    /\ UNCHANGED <<status, state, canSleep, waitMutex, outputs, flushed, item, workPc,
                   cancelPending, ctlVars, sigPc, waitPc, waitTarget, waitSeen, wakeHist>>

\* ClearInputPins(): inputs.Clear()
Clear ==
    /\ inputs' = << >>
    /\ added' = << >>
    /\ UNCHANGED <<status, state, canSleep, waitMutex, outputs, flushed, item, workPc,
                   cancelPending, ctlVars, sigPc, waitPc, waitTarget, waitSeen, wakeHist>>

\* Inputs()->Item(index)
Item(index) ==
    /\ item' \in ItemOutcomes(inputs, index)
    /\ UNCHANGED <<status, state, canSleep, waitMutex, inputs, outputs, flushed, added,
                   workPc, cancelPending, ctlVars, sigPc, waitPc, waitTarget, waitSeen,
                   wakeHist>>

\* A collection as constructed: no pins.
PinInit ==
    /\ status = "WaitingForExecute"
    /\ state = "Pause"
    /\ canSleep = TRUE
    /\ waitMutex = "none"
    /\ inputs = << >>
    /\ outputs = << >>
    /\ flushed = << >>
    /\ item = NoItem
    /\ added = << >>
    /\ workPc = "NotStarted"
    /\ cancelPending = FALSE
    /\ ctlPc = "Idle"
    /\ lastCall = "None"
    /\ sigPc = "Idle"
    /\ waitPc = [w \in Waiters |-> "Idle"]
    /\ waitTarget = [w \in Waiters |-> "WaitingForExecute"]
    /\ waitSeen = [w \in Waiters |-> FALSE]
    /\ accepted = 0
    /\ wakesSinceRearm = 0
    /\ coalesced = 0

\* The setup code and the readers of the collection, before the element runs.
PinNext ==
    \/ \E value \in Handles : Add(value)
    \/ Clear
    \/ \E index \in Indexes : Item(index)

PinSpec == PinInit /\ [][PinNext]_vars

---------------------------------------------------------------------------
\* The waiters: WaitForExecutionState.

\* A wait that tests nothing: it returns at once.
WaitPredicate_NoLoop(target) == FALSE

\* while (status != state)
WaitPredicate(target) == status # target

\* The call up to the first test: lock, test, and either unlock and return or
\* enter pthread_cond_wait (which unlocks and parks in one step).
WaitForExecutionState(w, target) ==
    /\ waitPc[w] \in {"Idle", "Returned"}
    /\ waitTarget' = [waitTarget EXCEPT ![w] = target]
    /\ waitSeen' = [waitSeen EXCEPT ![w] = (status = target)]
    /\ waitPc' = [waitPc EXCEPT ![w] = IF WaitPredicate(target) THEN "Parked" ELSE "Returned"]
    /\ UNCHANGED <<status, state, canSleep, waitMutex, pinVars, workPc, cancelPending,
                   ctlVars, sigPc, wakeHist>>

\* pthread_cond_wait returns with the mutex held; the loop tests again.
WaitRecheck(w) ==
    /\ waitPc[w] = "Woken"
    /\ waitPc' = [waitPc EXCEPT ![w] =
                     IF WaitPredicate(waitTarget[w]) THEN "Parked" ELSE "Returned"]
    /\ UNCHANGED <<status, state, canSleep, waitMutex, pinVars, workPc, cancelPending,
                   ctlVars, sigPc, waitTarget, waitSeen, wakeHist>>

\* pthread_cond_wait may return with no signal (a spurious wakeup).
WaitSpuriousWake(w) ==
    /\ waitPc[w] = "Parked"
    /\ waitPc' = [waitPc EXCEPT ![w] = "Woken"]
    /\ UNCHANGED <<status, state, canSleep, waitMutex, pinVars, workPc, cancelPending,
                   ctlVars, sigPc, waitTarget, waitSeen, wakeHist>>

---------------------------------------------------------------------------
\* The element with its worker, its controller and its signaller.
ElementNext ==
    \/ WorkerStep
    \/ SpuriousWake
    \/ Execute
    \/ Terminate
    \/ ControllerStep
    \/ Wake
    \/ \E value \in MediaState : SetState(value)
    \/ ChangeStateWake

\* The threads blocked in, or calling, WaitForExecutionState.
WaiterNext ==
    \/ \E w \in Waiters, target \in ExecutionState : WaitForExecutionState(w, target)
    \/ \E w \in Waiters : WaitRecheck(w)
    \/ \E w \in Waiters : WaitSpuriousWake(w)

Next == ElementNext \/ WaiterNext

\* Scheduling: a thread that can take its next statement eventually takes it.
\* Nothing obliges a caller to make a call, or the library to wake a thread
\* that was not signalled.
ElementFairness ==
    /\ WF_vars(WorkerStep)
    /\ WF_vars(ControllerStep)
    /\ WF_vars(ChangeStateWake)

WaiterFairness == \A w \in Waiters : WF_vars(WaitRecheck(w))

\* Every thread.
Spec == Init /\ [][Next]_vars
FairSpec == Spec /\ ElementFairness /\ WaiterFairness

\* No thread calls WaitForExecutionState.
ElementSpec == Init /\ [][ElementNext]_vars
FairElementSpec == ElementSpec /\ ElementFairness

\* The forced stop: a cancel request pending while the worker is in the
\* sleep-gate wait acts on it. A worker that enters the wait again and again
\* with the request pending (spurious wakeups) is stopped in one of them.
CancelFairness == SF_vars(Cancelled)

\* The sleep-gate mutex: a SetState caller blocked in Wake's pthread_mutex_lock
\* gets waitMutex when the worker releases it again and again.
GateFairness == SF_vars(ChangeStateWake)

\* The element under a scheduler that is fair to the forced stop and to the
\* threads contending for waitMutex as well.
FairSchedulerSpec == FairElementSpec /\ CancelFairness /\ GateFairness

\* The first run of the element: the controller calls Execute and never
\* Terminate, so the worker never leaves its loop.
FirstRunElementNext ==
    \/ SetInitializing \/ SignalInitializing \/ Initialize
    \/ SetExecuting \/ SignalExecuting
    \/ LoopHead \/ CheckPlay \/ DoWork \/ DoWorkReturn
    \/ LockGate \/ CheckSleep \/ LeaveWait \/ Rearm \/ UnlockGate
    \/ SpuriousWake
    \/ Execute
    \/ Wake
    \/ \E value \in MediaState : SetState(value)
    \/ ChangeStateWake

\* One thread at a time is in WaitForExecutionState.
OneWaiterNext ==
    \/ \E target \in ExecutionState : WaitForExecutionState(1, target)
    \/ WaitRecheck(1)
    \/ WaitSpuriousWake(1)

\* The first run with one waiting thread.
FirstRunNext == FirstRunElementNext \/ OneWaiterNext

FairFirstRunSpec ==
    Init /\ [][FirstRunNext]_vars /\ ElementFairness /\ WF_vars(WaitRecheck(1))

\* The first run with every waiting thread.
FirstRunWaitersNext == FirstRunElementNext \/ WaiterNext

FairFirstRunWaitersSpec ==
    Init /\ [][FirstRunWaitersNext]_vars /\ ElementFairness /\ WaiterFairness

\* The whole element with one waiting thread.
ElementOneWaiterNext == ElementNext \/ OneWaiterNext

ElementOneWaiterSpec == Init /\ [][ElementOneWaiterNext]_vars

---------------------------------------------------------------------------
\* The claims.

\* The changes of status a run may make, in order.
AllowedTransitions ==
    { <<"WaitingForExecute", "Initializing">>,
      <<"Initializing", "Executing">>,
      <<"Executing", "Terminating">>,
      <<"Terminating", "WaitingForExecute">> }

C2_SecondExecuteFails ==
    [][(Execute /\ accepted >= 1) =>
         (lastCall' = "ExecuteInvalidOperation" /\ status' = status)]_vars

\* C3: once Terminate has returned, the worker has fully exited and Status() is
\* WaitingForExecute.
C3_TerminateReturnsToWaiting ==
    lastCall = "TerminateOk" =>
        (workPc = "NotStarted" /\ status = "WaitingForExecute")

\* C4: an Execute call made while status is not WaitingForExecute fails with the
\* invalid-operation error, starts no worker and leaves status, state, canSleep
\* and waitMutex as they were.
C4_ExecuteRejected ==
    [][(Execute /\ status # "WaitingForExecute") =>
         /\ lastCall' = "ExecuteInvalidOperation"
         /\ UNCHANGED <<status, state, canSleep, waitMutex, workPc, cancelPending>>]_vars

\* C4's case: an Execute call was rejected while the worker of an earlier one runs.
C4_Witness ==
    /\ lastCall = "ExecuteInvalidOperation"
    /\ workPc \notin {"NotStarted", "Exited", "Cancelled"}

\* C5: a Terminate call made while status is not Executing fails with the
\* invalid-operation error, flushes no pin, neither cancels nor joins the worker
\* and leaves status, state, canSleep and waitMutex as they were.
C5_TerminateRejected ==
    [][(Terminate /\ status # "Executing") =>
         /\ lastCall' = "TerminateInvalidOperation"
         /\ ctlPc' = "Idle"
         /\ UNCHANGED <<status, state, canSleep, waitMutex, flushed, workPc,
                        cancelPending>>]_vars

\* C5's case: Terminate was rejected on a freshly constructed element.
C5_Witness ==
    /\ lastCall = "TerminateInvalidOperation"
    /\ workPc = "NotStarted"
    /\ status = "WaitingForExecute"
    /\ accepted = 0

\* C6: once one Execute has been accepted and while no Terminate has been, a
\* thread blocked in WaitForExecutionState(Executing) eventually returns.
C6_WaitForExecutingReturns ==
    \A w \in Waiters :
        (waitPc[w] \in {"Parked", "Woken"} /\ waitTarget[w] = "Executing" /\ accepted = 1)
            ~> (waitPc[w] = "Returned" \/ accepted # 1)

\* C7: a thread that was blocked in WaitForExecutionState(target) when status
\* became target eventually returns, whatever status does afterwards.
C7_BlockedWaiterUnblocks ==
    \A w \in Waiters :
        (waitPc[w] \in {"Parked", "Woken"} /\ waitSeen[w]) ~> (waitPc[w] = "Returned")

\* C8: WaitForExecutionState(target) has returned only if status equalled target
\* at the call or at some moment since.
C8_ReturnsOnlyAfterTarget ==
    \A w \in Waiters : waitPc[w] = "Returned" => waitSeen[w]

\* C8's case: a call that had to block has returned, and status has moved on.
C8_Witness ==
    \E w \in Waiters :
        /\ waitPc[w] = "Returned"
        /\ waitTarget[w] = "Executing"
        /\ status = "Terminating"

\* C9: after a Wake the worker does not stay parked. A worker that reaches the
\* test of the gate with a Wake made since its last re-arm goes on without
\* entering the wait; a worker in the wait while the gate is open and the element
\* is Executing leaves the wait.
C9_WakeUnparks ==
    /\ [][(workPc = "CheckSleep" /\ wakesSinceRearm > 0) => workPc' # "Parked"]_vars
    /\ (workPc \in {"Parked", "Woken"} /\ ~canSleep /\ status = "Executing")
           ~> (workPc \notin {"Parked", "Woken"} \/ status # "Executing")

\* C9's case: Wake has just released the parked worker of an Executing element.
C9_Witness ==
    /\ workPc = "Woken"
    /\ ~canSleep
    /\ wakesSinceRearm > 0
    /\ status = "Executing"

\* C10: however many Wake calls the worker's gate pass consumed, the pass leaves
\* the gate closed: while no Wake has been made since the re-arm canSleep is
\* true, and the worker's next test of the gate sends it into the wait.
C10_WakesCoalesce ==
    /\ [](wakesSinceRearm = 0 => canSleep)
    /\ [][(workPc = "CheckSleep" /\ wakesSinceRearm = 0 /\ workPc' # workPc)
             => workPc' = "Parked"]_vars

\* C10's case: one gate pass consumed several Wakes and the worker is parked again.
C10_Witness ==
    /\ coalesced >= 2
    /\ wakesSinceRearm = 0
    /\ workPc = "Parked"
    /\ status = "Executing"

\* C11: an accepted Terminate calls Flush on every input pin and then on every
\* output pin, each once and in insertion order, after it has stored Terminating
\* and before it asks the worker to cancel.
C11_FlushOrderInTerminate ==
    /\ [][(ctlPc' = "TermSignal" /\ ctlPc # "TermSignal")
             => (status' = "Terminating" /\ flushed' = << >>)]_vars
    /\ [][(flushed' # flushed /\ flushed' # << >>)
             => /\ ctlPc = "TermFlush"
                /\ Len(flushed) < Len(inputs \o outputs)
                /\ flushed' = Append(flushed, (inputs \o outputs)[Len(flushed) + 1])]_vars
    /\ [][TermCancel => flushed = inputs \o outputs]_vars
    /\ [](ctlPc \in {"TermCancel", "TermJoin"} => flushed = inputs \o outputs)
    /\ []((ctlPc = "Idle" /\ lastCall = "TerminateOk") => flushed = inputs \o outputs)

\* C11's case: Terminate has flushed two input pins and two output pins and is
\* about to cancel the worker.
C11_Witness ==
    /\ ctlPc = "TermCancel"
    /\ Len(inputs) >= 2
    /\ Len(outputs) >= 2
    /\ flushed = inputs \o outputs
    /\ ~cancelPending


\* C12: every Terminate call that passed its precondition eventually returns,
\* wherever the worker was and whatever Wake and SetState calls run meanwhile.
C12_TerminateReturns ==
    (ctlPc # "Idle") ~> (ctlPc = "Idle" /\ lastCall = "TerminateOk")

\* C12's case: Terminate has returned after stopping a worker that was parked in
\* the sleep-gate wait.
C12_Witness ==
    /\ ctlPc = "Idle"
    /\ lastCall = "TerminateOk"
    /\ status = "Terminating"
    /\ waitMutex = "worker"


\* C13: with the element Executing, a SetState(Play) call that found playState
\* Pause is followed by the start of a DoWork invocation, unless a Terminate or a
\* SetState(Pause) intervenes. First conjunct: the worker is not inside DoWork
\* when SetState stores Play (parked, or anywhere on its way to the gate), and a
\* DoWork invocation follows. Second conjunct: the worker was inside DoWork at
\* that moment; once that invocation has returned, with the Wake of SetState
\* still to come or not yet consumed, a new invocation follows.
C13_PlayStartsWork ==
    /\ (sigPc = "ChangeStateWake" /\ state = "Play" /\ status = "Executing"
          /\ workPc # "InDoWork")
           ~> (workPc = "InDoWork" \/ state = "Pause" \/ status # "Executing")
    /\ (workPc = "Lock" /\ state = "Play" /\ status = "Executing"
          /\ (sigPc = "ChangeStateWake" \/ ~canSleep))
           ~> (workPc = "InDoWork" \/ state = "Pause" \/ status # "Executing")

\* C13's case: the worker was parked with the gate closed when SetState(Play)
\* stored Play, and its Wake is still to come.
C13_Witness ==
    /\ sigPc = "ChangeStateWake"
    /\ state = "Play"
    /\ status = "Executing"
    /\ workPc = "Parked"
    /\ canSleep


\* C14: once a SetState(Pause) call on an Executing element has returned, no
\* DoWork invocation begins while playState is still Pause and executionStatus
\* still Executing.
C14_NoWorkAfterPause ==
    [][DoWork => ~(state = "Pause" /\ sigPc = "Idle" /\ status = "Executing")]_vars


\* C15: SetState(v) never changes executionStatus. With v different from
\* playState it stores v and then clears the sleep gate; with v equal to playState
\* it leaves playState, the sleep gate and executionStatus as they were.
C15_SetStateFrame ==
    /\ [][\A v \in MediaState :
             SetState(v) =>
                 /\ status' = status
                 /\ state = v => (UNCHANGED <<state, canSleep, waitMutex, workPc>>
                                    /\ sigPc' = "Idle")
                 /\ state # v => (state' = v /\ sigPc' = "ChangeStateWake")]_vars
    /\ [][ChangeStateWake =>
             (status' = status /\ state' = state /\ canSleep' = FALSE
                /\ sigPc' = "Idle")]_vars

\* C15's case: SetState(Play) has returned on an Executing element whose worker
\* was parked: playState is Play, the gate is cleared, the worker is released.
C15_Witness ==
    /\ sigPc = "Idle"
    /\ state = "Play"
    /\ ~canSleep
    /\ wakesSinceRearm = 1
    /\ workPc = "Woken"
    /\ status = "Executing"


\* C16: on a collection of k pins, Item(index) with index < 0 or index >= k,
\* index == k included, fails with the out-of-range error and returns no handle.
C16_ItemOutOfRangeFails ==
    [][\A index \in Indexes :
          (Item(index) /\ (index < 0 \/ index >= Count(inputs)))
              => (item'.outcome = "ArgumentOutOfRange" /\ item'.handle = NoHandle)]_vars

\* C17: after any sequence of Add and Clear, Count() is the number of Adds since
\* the last Clear, and every Item(i) with 0 <= i < Count() returns the (i+1)-th
\* handle added since the last Clear.
C17_CountAndItemFollowAdds ==
    /\ [](Count(inputs) = Len(added))
    /\ [][\A index \in Indexes :
             (Item(index) /\ index >= 0 /\ index < Len(added))
                 => (item'.outcome = "Returned" /\ item'.handle = added[index + 1])]_vars
    /\ [][Clear => Count(inputs') = 0]_vars

\* C17's case: two different handles were added and Item(1)
\* returned the second of them.
C17_Witness ==
    /\ Len(added) = 2
    /\ added[1] # added[2]
    /\ item.index = 1
    /\ item.outcome = "Returned"
    /\ item.handle = added[2]
    /\ Count(inputs) = 2


\* C18: in each run the worker calls Initialize once, after it stored
\* Initializing and before Executing is stored; a DoWork invocation begins only
\* after the worker read Executing at the loop head and then Play in the same
\* iteration, and each iteration begins at most one.
C18_InitializeOnceWorkGuarded ==
    /\ [][(workPc' = "Initialize" /\ workPc # "Initialize")
             => (workPc = "SignalInitializing" /\ status = "Initializing")]_vars
    /\ [][(workPc' = "SignalInitializing" /\ workPc # "SignalInitializing")
             => (workPc = "SetInitializing" /\ status' = "Initializing")]_vars
    /\ [][(workPc' = "SetInitializing" /\ workPc # "SetInitializing")
             => workPc = "NotStarted"]_vars
    /\ [][(workPc = "Initialize" /\ workPc' # "Initialize")
             => (workPc' = "SetExecuting" /\ status' = "Initializing")]_vars
    /\ [][(status' = "Executing" /\ status # "Executing") => workPc = "SetExecuting"]_vars
    /\ [][(workPc' = "CheckPlay" /\ workPc # "CheckPlay")
             => (workPc = "LoopHead" /\ status = "Executing")]_vars
    /\ [][(workPc' = "DoWork" /\ workPc # "DoWork")
             => (workPc = "CheckPlay" /\ state = "Play")]_vars
    /\ [][(workPc' = "InDoWork" /\ workPc # "InDoWork") => workPc = "DoWork"]_vars
    /\ [][(workPc = "InDoWork" /\ workPc' # "InDoWork") => workPc' = "Lock"]_vars
    /\ [][(workPc' = "LoopHead" /\ workPc # "LoopHead")
             => workPc \in {"SignalExecuting", "Unlock"}]_vars

\* C18's case: in a second iteration of the loop the worker is inside DoWork.
C18_Witness ==
    /\ workPc = "InDoWork"
    /\ coalesced >= 1
    /\ status = "Executing"
    /\ state = "Play"


\* C19: an element is reusable. After a Terminate call has returned, status is
\* WaitingForExecute and the sleep-gate mutex is free, the next Execute is
\* accepted, and its worker reaches Executing.
C19_ReusableAfterTerminate ==
    /\ []((ctlPc = "Idle" /\ lastCall = "TerminateOk")
             => (status = "WaitingForExecute" /\ waitMutex = "none"))
    /\ [][(Execute /\ lastCall = "TerminateOk") => lastCall' = "ExecuteOk"]_vars
    /\ (lastCall = "ExecuteOk" /\ accepted = 1) ~> (status = "Executing" \/ accepted # 1)

\* C20: while Terminate is inside Flush, with a pin's Flush in progress, the
\* worker is not inside DoWork.
C20_NoWorkDuringFlush ==
    ~(ctlPc = "PinFlush" /\ workPc = "InDoWork")


=============================================================================
